---- MODULE Spec2Model ----
(***************************************************************************)
(* Model of the waterfalls storage core:                                   *)
(*   - the in-memory store (src/src/store/memory.rs): UTXO map, history    *)
(*     index and the bounded reorg-undo deque, with update / reorg /       *)
(*     get_utxos;                                                          *)
(*   - the header preload / gap repair (src/src/server/preload.rs).        *)
(* The two parts have separate specifications over one set of variables.   *)
(***************************************************************************)
EXTENDS Integers, Sequences, FiniteSets, TLC

(***************************************************************************)
(* Bounds of the model and program constants.                              *)
(***************************************************************************)
\* depth of the undo deque (REORG_BUFFER_MAX_DEPTH is imported by memory.rs)
REORG_BUFFER_MAX_DEPTH == 2
\* update calls in one run of Spec
MaxUpdates == 2
\* update calls in one run of SpecDeep (one more than the depth, so that the
\* oldest record is evicted)
MaxDeepUpdates == 3
\* longest list of outpoints passed to get_utxos
MaxQuery == 2
\* calls started in one run of the threaded store
MaxCalls == 3
\* calls of headers() on one persisted column: the first and its retries
MaxAttempts == 2
\* const MAX_HASH_GAP_REPAIR: u32 = 1000
MAX_HASH_GAP_REPAIR == 1000
\* persisted sequences hold at most MaxMetas records ...
MaxMetas == 3
\* ... of heights 0..MaxPersistedHeight, or one far height (FarHeights)
MaxPersistedHeight == 3

Outpoints == {"o1", "o2"}
Scripts == {"s1", "s2"}
Txids == {"t1", "t2"}
Heights == {1, 2}

None == "None"

(***************************************************************************)
(* Ordered maps (BTreeMap) are functions on a finite key set.              *)
(***************************************************************************)
EmptyMap == << >>

Range(s) == {s[k] : k \in DOMAIN s}

MapRemove(m, ks) == [k \in (DOMAIN m) \ ks |-> m[k]]

\* BTreeMap::extend / insert: keys of adds overwrite
MapExtend(m, adds) ==
  [k \in (DOMAIN m) \cup (DOMAIN adds) |->
      IF k \in DOMAIN adds THEN adds[k] ELSE m[k]]

MapGetOr(m, k, dflt) == IF k \in DOMAIN m THEN m[k] ELSE dflt

(***************************************************************************)
(* Entity model.                                                           *)
(***************************************************************************)
Vin(n) == <<"Vin", n>>
Vout(n) == <<"Vout", n>>

TxSeen(txid, height, v) == [txid |-> txid, height |-> height, v |-> v]

SpentUtxo(outpoint, script_hash, txid, vin) ==
  [outpoint |-> outpoint, script_hash |-> script_hash, txid |-> txid, vin |-> vin]

ReorgData(height, spent, hist, utxos_created) ==
  [height |-> height, spent |-> spent, history |-> hist,
   utxos_created |-> utxos_created]

(***************************************************************************)
(* MemoryStore helpers, as functions of the map they lock.                 *)
(***************************************************************************)
\* a remove_utxos that removes nothing
remove_utxos_none(utxos, outpoints) == utxos

\* a remove_utxos that gives up at the first missing outpoint
RECURSIVE remove_utxos_until_missing(_, _)
remove_utxos_until_missing(utxos, outpoints) ==
  IF outpoints = << >> \/ Head(outpoints) \notin DOMAIN utxos THEN utxos
  ELSE remove_utxos_until_missing(MapRemove(utxos, {Head(outpoints)}), Tail(outpoints))

\* remove_utxos: a missing outpoint only logs a warning
remove_utxos(utxos, outpoints) == MapRemove(utxos, Range(outpoints))

\* an update_history that puts the additions in front
update_history_in_front(history, add) ==
  [k \in (DOMAIN history) \cup (DOMAIN add) |->
      MapGetOr(add, k, << >>) \o MapGetOr(history, k, << >>)]

\* update_history: history.entry(k).or_default().extend(v)
update_history(history, add) ==
  [k \in (DOMAIN history) \cup (DOMAIN add) |->
      MapGetOr(history, k, << >>) \o MapGetOr(add, k, << >>)]

insert_utxos(utxos, adds) == MapExtend(utxos, adds)

remove_utxos_created(utxos, utxos_created) == MapRemove(utxos, DOMAIN utxos_created)

\* a match that ignores the direction marker
entry_matches_no_marker(entry, entry_to_remove) ==
  /\ entry.txid = entry_to_remove.txid
  /\ entry.height = entry_to_remove.height

\* the predicate negated inside retain
entry_matches(entry, entry_to_remove) ==
  /\ entry.txid = entry_to_remove.txid
  /\ entry.height = entry_to_remove.height
  /\ entry.v = entry_to_remove.v

RECURSIVE retain(_, _)
retain(current_entries, entry_to_remove) ==
  IF current_entries = << >> THEN << >>
  ELSE IF entry_matches(Head(current_entries), entry_to_remove)
       THEN retain(Tail(current_entries), entry_to_remove)
       ELSE <<Head(current_entries)>> \o retain(Tail(current_entries), entry_to_remove)

\* for entry_to_remove in entries_to_remove { current_entries.retain(..) }
RECURSIVE retain_each(_, _)
retain_each(current_entries, entries_to_remove) ==
  IF entries_to_remove = << >> THEN current_entries
  ELSE retain_each(retain(current_entries, Head(entries_to_remove)),
                   Tail(entries_to_remove))

remove_history_entries(history, to_remove) ==
  IF DOMAIN to_remove = {} THEN history
  ELSE LET after(k) == IF k \in DOMAIN to_remove
                       THEN retain_each(history[k], to_remove[k])
                       ELSE history[k]
           emptied == {k \in (DOMAIN history) \cap (DOMAIN to_remove) :
                          after(k) = << >>}
       IN [k \in (DOMAIN history) \ emptied |-> after(k)]

\* a push that drops the back, not the front, once the bound is exceeded
push_reorg_data_drops_back(reorg_data, data) ==
  LET pushed == Append(reorg_data, data)
  IN IF Len(pushed) > REORG_BUFFER_MAX_DEPTH
     THEN SubSeq(pushed, 1, REORG_BUFFER_MAX_DEPTH) ELSE pushed

\* push_back, then pop_front once the length exceeds the bound
push_reorg_data(reorg_data, data) ==
  LET pushed == Append(reorg_data, data)
  IN IF Len(pushed) > REORG_BUFFER_MAX_DEPTH THEN Tail(pushed) ELSE pushed

\* pop_back on a non-empty deque: the record and the remaining deque
pop_reorg_data(reorg_data) ==
  [data |-> reorg_data[Len(reorg_data)],
   rest |-> SubSeq(reorg_data, 1, Len(reorg_data) - 1)]

\* a merge that puts the input entry in front of the caller's additions
RECURSIVE merge_spent_in_front(_, _, _)
merge_spent_in_front(history_map, utxo_spent, height) ==
  IF utxo_spent = << >> THEN history_map
  ELSE LET spent == Head(utxo_spent)
           el == MapGetOr(history_map, spent.script_hash, << >>)
           pushed == <<TxSeen(spent.txid, height, Vin(spent.vin))>> \o el
       IN merge_spent_in_front(MapExtend(history_map, (spent.script_hash :> pushed)),
                               Tail(utxo_spent), height)

\* the loop of update that merges one synthesized input entry per spent utxo
RECURSIVE merge_spent(_, _, _)
merge_spent(history_map, utxo_spent, height) ==
  IF utxo_spent = << >> THEN history_map
  ELSE LET spent == Head(utxo_spent)
           el == MapGetOr(history_map, spent.script_hash, << >>)
           pushed == Append(el, TxSeen(spent.txid, height, Vin(spent.vin)))
       IN merge_spent(MapExtend(history_map, (spent.script_hash :> pushed)),
                      Tail(utxo_spent), height)

only_outpoints(utxo_spent) == [k \in DOMAIN utxo_spent |-> utxo_spent[k].outpoint]

spent_pairs(utxo_spent) ==
  [k \in DOMAIN utxo_spent |->
      <<utxo_spent[k].outpoint, utxo_spent[k].script_hash>>]

\* reorg_data.spent.into_iter().collect::<BTreeMap>(): a later pair wins
RECURSIVE collect_spent(_)
collect_spent(pairs) ==
  IF pairs = << >> THEN EmptyMap
  ELSE MapExtend(collect_spent(SubSeq(pairs, 1, Len(pairs) - 1)),
                 (pairs[Len(pairs)][1] :> pairs[Len(pairs)][2]))

(***************************************************************************)
(* The store as a value: [utxos, history, reorg_data].                     *)
(***************************************************************************)
Store(u, h, r) == [utxos |-> u, history |-> h, reorg_data |-> r]

new == Store(EmptyMap, EmptyMap, << >>)

\* MemoryStore::update
update(st, block) ==
  LET utxos1 == remove_utxos(st.utxos, only_outpoints(block.utxo_spent))
      history_map == merge_spent(block.history_map, block.utxo_spent, block.height)
      history1 == update_history(st.history, history_map)
      utxos2 == insert_utxos(utxos1, block.utxo_created)
      data == ReorgData(block.height, spent_pairs(block.utxo_spent),
                        history_map, block.utxo_created)
  IN Store(utxos2, history1, push_reorg_data(st.reorg_data, data))

\* MemoryStore::reorg on a non-empty deque
reorg(st) ==
  LET popped == pop_reorg_data(st.reorg_data)
      spent == collect_spent(popped.data.spent)
      utxos1 == insert_utxos(st.utxos, spent)
      utxos2 == remove_utxos_created(utxos1, popped.data.utxos_created)
      history1 == remove_history_entries(st.history, popped.data.history)
  IN Store(utxos2, history1, popped.rest)

\* a get_utxos that answers in reverse order
get_utxos_reversed(utxos, outpoints) ==
  [k \in DOMAIN outpoints |->
      MapGetOr(utxos, outpoints[Len(outpoints) + 1 - k], None)]

\* MemoryStore::get_utxos
get_utxos(utxos, outpoints) ==
  [k \in DOMAIN outpoints |-> MapGetOr(utxos, outpoints[k], None)]

\* MemoryStore::get_history for one script
get_history(history, script) == MapGetOr(history, script, << >>)


(***************************************************************************)
(* Inputs of update.  A block carries one transaction txid at the block's  *)
(* height: it spends at most one outpoint (input 0) and creates at most    *)
(* one outpoint (output 0); the caller's history additions hold the output *)
(* entry of the created outpoint's script, as the indexer builds them.     *)
(***************************************************************************)
SpentLists(txid) ==
  {<< >>} \cup {<<SpentUtxo("o1", "s1", txid, 0)>>, <<SpentUtxo("o2", "s2", txid, 0)>>}

CreatedMaps ==
  {EmptyMap} \cup {(o :> s) : o \in Outpoints, s \in Scripts}

HistoryAdditions(created, txid, height) ==
  [s \in Range(created) |-> <<TxSeen(txid, height, Vout(0))>>]

Block(height, utxo_spent, history_map, utxo_created) ==
  [height |-> height, utxo_spent |-> utxo_spent,
   history_map |-> history_map, utxo_created |-> utxo_created]

BlocksOf(height, txid) ==
  {Block(height, sp, HistoryAdditions(cr, txid, height), cr) :
      sp \in SpentLists(txid), cr \in CreatedMaps}

BlocksAt(heights, txids) ==
  UNION {BlocksOf(h, t) : h \in heights, t \in txids}

Blocks == BlocksAt(Heights, Txids)

\* the blocks of the deep runs: one height, one transaction id, each
\* outpoint created for one script only, and only o1 spent
DeepBlocks ==
  {b \in BlocksAt({1}, {"t1"}) :
      /\ b.utxo_created \in {EmptyMap, ("o1" :> "s1"), ("o2" :> "s2")}
      /\ b.utxo_spent \in {<< >>, <<SpentUtxo("o1", "s1", "t1", 0)>>}}

\* the blocks of the spending runs: one height, one transaction id; up to
\* two inputs, of one script or of two, and an output that may belong to the
\* script of an input
SpendLists ==
  {<< >>,
   <<SpentUtxo("o1", "s1", "t1", 0)>>,
   <<SpentUtxo("o1", "s1", "t1", 0), SpentUtxo("o2", "s2", "t1", 1)>>,
   <<SpentUtxo("o2", "s2", "t1", 0), SpentUtxo("o1", "s1", "t1", 1)>>,
   <<SpentUtxo("o1", "s1", "t1", 0), SpentUtxo("o2", "s1", "t1", 1)>>}

SpendCreated == {EmptyMap, ("o1" :> "s1"), ("o2" :> "s2"), ("o2" :> "s1")}

SpendBlocks ==
  {Block(1, sp, HistoryAdditions(cr, "t1", 1), cr) : sp \in SpendLists, cr \in SpendCreated}

RECURSIVE SeqsUpTo(_, _)
SeqsUpTo(S, n) ==
  IF n = 0 THEN {<< >>}
  ELSE LET shorter == SeqsUpTo(S, n - 1)
       IN shorter \cup {Append(q, x) : q \in shorter, x \in S}

Queries == SeqsUpTo(Outpoints, MaxQuery)

(***************************************************************************)
(* State.                                                                  *)
(***************************************************************************)
VARIABLES
  utxos,        \* MemoryStore.utxos
  history,      \* MemoryStore.history
  reorg_data,   \* MemoryStore.reorg_data
  aborted,      \* error_panic! in pop_reorg_data has fired
  call,         \* the last call made on the store: [op, arg]
  ret,          \* value returned by the last completed call
  popped,       \* reorg's local reorg_data: the record it popped last
  applied,      \* blocks passed to update and not undone since, in order
  fresh,        \* no update so far added an entry equal to one already present
  reorged,      \* a reorg has completed
  updates       \* number of update calls so far

storeVars == <<utxos, history, reorg_data, aborted, call, ret, popped, applied, fresh,
               reorged, updates>>

store == Store(utxos, history, reorg_data)

Call(op, arg) == [op |-> op, arg |-> arg]

\* Ok(value) of anyhow::Result, and the unit a plain fn returns
Ok(value) == [kind |-> "Ok", value |-> value]
Unit == [kind |-> "unit"]

StoreInit ==
  /\ utxos = new.utxos
  /\ history = new.history
  /\ reorg_data = new.reorg_data
  /\ aborted = FALSE
  /\ call = Call("none", << >>)
  /\ ret = [kind |-> "none"]
  /\ popped = ReorgData(0, << >>, EmptyMap, EmptyMap)
  /\ applied = << >>
  /\ fresh = TRUE
  /\ reorged = FALSE
  /\ updates = 0

\* the entries update merges for a block, per script
Contributed(block) == merge_spent(block.history_map, block.utxo_spent, block.height)

AddsKnownEntry(hist, block) ==
  \E s \in DOMAIN Contributed(block) :
    \E k \in DOMAIN Contributed(block)[s] :
      \E j \in DOMAIN get_history(hist, s) :
        entry_matches(get_history(hist, s)[j], Contributed(block)[s][k])

Update(block) ==
  /\ ~aborted
  /\ LET st == update(store, block)
     IN /\ utxos' = st.utxos
        /\ history' = st.history
        /\ reorg_data' = st.reorg_data
  /\ call' = Call("update", block)
  /\ ret' = Ok("unit")
  /\ applied' = Append(applied, block)
  /\ fresh' = (fresh /\ ~AddsKnownEntry(history, block))
  /\ updates' = updates + 1
  /\ UNCHANGED <<aborted, popped, reorged>>

Reorg ==
  /\ ~aborted
  /\ reorg_data # << >>
  /\ LET st == reorg(store)
     IN /\ utxos' = st.utxos
        /\ history' = st.history
        /\ reorg_data' = st.reorg_data
  /\ call' = Call("reorg", << >>)
  /\ ret' = Unit
  /\ popped' = pop_reorg_data(reorg_data).data
  /\ applied' = SubSeq(applied, 1, Len(applied) - 1)
  /\ reorged' = TRUE
  /\ UNCHANGED <<aborted, fresh, updates>>

\* a reorg that returns on an empty deque (unwrap_or_default)
ReorgOnEmptyReturns ==
  /\ ~aborted
  /\ reorg_data = << >>
  /\ call' = Call("reorg", << >>)
  /\ ret' = Unit
  /\ UNCHANGED <<utxos, history, reorg_data, aborted, popped, applied, fresh, reorged,
                 updates>>

\* pop_back() is None: error_panic! diverges before reorg touches a map
ReorgPanic ==
  /\ ~aborted
  /\ reorg_data = << >>
  /\ aborted' = TRUE
  /\ call' = Call("reorg", << >>)
  /\ UNCHANGED <<utxos, history, reorg_data, ret, popped, applied, fresh, reorged, updates>>

GetUtxos(outpoints) ==
  /\ ~aborted
  /\ call' = Call("get_utxos", outpoints)
  /\ ret' = Ok(get_utxos(utxos, outpoints))
  /\ UNCHANGED <<utxos, history, reorg_data, aborted, popped, applied, fresh, reorged,
                 updates>>

(***************************************************************************)
(* The store under threads.  Every helper of MemoryStore locks one mutex,  *)
(* works on the map and drops the guard when it returns; a call is the     *)
(* sequence of its helpers.  A thread is in a helper either waiting for    *)
(* the mutex or holding it.                                                *)
(***************************************************************************)
Threads == {"t1", "t2"}

Locks == {"utxos", "history", "reorg_data"}

\* update with the helpers in another order: insert_utxos before update_history
UpdateStagesInsertFirst ==
  <<"remove_utxos", "insert_utxos", "update_history", "push_reorg_data">>

\* the helpers update calls, in order (lines 81, 92, 93, 94)
UpdateStages ==
  <<"remove_utxos", "update_history", "insert_utxos", "push_reorg_data">>

\* the helpers reorg calls, in order (lines 107, 109, 110, 111)
ReorgStages ==
  <<"pop_reorg_data", "insert_utxos", "remove_utxos_created", "remove_history_entries">>

\* the mutex a helper locks; get_utxos and get_history lock once per element
LockOf(stage) ==
  CASE stage \in {"remove_utxos", "insert_utxos", "remove_utxos_created", "get_utxos"}
         -> "utxos"
    [] stage \in {"update_history", "remove_history_entries", "get_history"}
         -> "history"
    [] stage \in {"push_reorg_data", "pop_reorg_data"}
         -> "reorg_data"

StagesOf(op) ==
  CASE op = "update" -> UpdateStages
    [] op = "reorg" -> ReorgStages
    [] op = "get_utxos" -> <<"get_utxos">>
    [] op = "get_history" -> <<"get_history">>

\* the blocks of the threaded runs: one creates o1 for s1, one spends it and
\* creates o2 for s2, one is empty
ThreadBlocks ==
  {b \in DeepBlocks :
     \/ b.utxo_spent = << >> /\ b.utxo_created \in {EmptyMap, ("o1" :> "s1")}
     \/ b.utxo_spent # << >> /\ b.utxo_created = ("o2" :> "s2")}

ThreadCalls ==
  {Call("update", b) : b \in ThreadBlocks}
    \cup {Call("reorg", << >>), Call("get_utxos", <<"o1", "o2">>),
          Call("get_history", <<"s1", "s2">>)}

VARIABLES
  lock,    \* holder of each mutex, or "free"
  tpc,     \* per thread: the helper it is in (step of its call) and whether
           \* it holds the helper's mutex
  tcall,   \* per thread: the call it is in, or made last
  tloc,    \* per thread, while its call runs: the locals history_map,
           \* reorg_data (data), result, and for get_utxos what the map held
           \* for the outpoints when the call began (at_entry)
  tret,    \* per thread: what its call returned, none while it runs (Ok(())
           \* of update is Ok of the empty tuple)
  acq,     \* per thread: the mutexes its call has locked so far, in order
  calls    \* number of calls started

threadVars == <<lock, tpc, tcall, tloc, tret, acq, calls>>

Idle == [step |-> 0, locked |-> FALSE]

NoLocals ==
  [history_map |-> EmptyMap, data |-> ReorgData(0, << >>, EmptyMap, EmptyMap),
   result |-> << >>, at_entry |-> << >>]

ThreadsInit ==
  /\ lock = [l \in Locks |-> "free"]
  /\ tpc = [t \in Threads |-> Idle]
  /\ tcall = [t \in Threads |-> Call("none", << >>)]
  /\ tloc = [t \in Threads |-> NoLocals]
  /\ tret = [t \in Threads |-> [kind |-> "none"]]
  /\ acq = [t \in Threads |-> << >>]
  /\ calls = 0

\* the helper thread t is in
StageOf(t) == StagesOf(tcall[t].op)[tpc[t].step]

Busy(t) == tpc[t].step # 0

\* thread t is in helper stage and holds its mutex
Holding(t, stage) ==
  /\ ~aborted
  /\ Busy(t)
  /\ StageOf(t) = stage
  /\ tpc[t].locked
  /\ lock[LockOf(stage)] = t

\* a helper that returns with its guard still alive
LeaveHolding(t, value) ==
  /\ lock' = lock
  /\ IF tpc[t].step < Len(StagesOf(tcall[t].op))
     THEN /\ tpc' = [tpc EXCEPT ![t] = [step |-> tpc[t].step + 1, locked |-> FALSE]]
          /\ tret' = tret
     ELSE /\ tpc' = [tpc EXCEPT ![t] = Idle]
          /\ tret' = [tret EXCEPT ![t] = value]

\* the guard is dropped and the helper returns: the next helper of the call,
\* or the return of the call
Leave(t, value) ==
  /\ lock' = [lock EXCEPT ![LockOf(StageOf(t))] = "free"]
  /\ IF tpc[t].step < Len(StagesOf(tcall[t].op))
     THEN /\ tpc' = [tpc EXCEPT ![t] = [step |-> tpc[t].step + 1, locked |-> FALSE]]
          /\ tret' = tret
     ELSE /\ tpc' = [tpc EXCEPT ![t] = Idle]
          /\ tret' = [tret EXCEPT ![t] = value]

\* a thread enters update, reorg, get_utxos or get_history
Begin(t, c) ==
  /\ ~aborted
  /\ ~Busy(t)
  /\ calls < MaxCalls
  /\ calls' = calls + 1
  /\ tcall' = [tcall EXCEPT ![t] = c]
  /\ tpc' = [tpc EXCEPT ![t] = [step |-> 1, locked |-> FALSE]]
  /\ tloc' = [tloc EXCEPT ![t] =
                [NoLocals EXCEPT !.at_entry =
                   IF c.op = "get_utxos" THEN get_utxos(utxos, c.arg) ELSE << >>]]
  /\ acq' = [acq EXCEPT ![t] = << >>]
  /\ tret' = [tret EXCEPT ![t] = [kind |-> "none"]]
  /\ UNCHANGED <<utxos, history, reorg_data, aborted, lock>>

\* remove_history_entries returns before locking when to_remove is empty
SkipsLock(t) ==
  /\ StageOf(t) = "remove_history_entries"
  /\ DOMAIN tloc[t].data.history = {}

\* get_utxos and get_history have pushed one result per element
Answered(t) ==
  /\ StageOf(t) \in {"get_utxos", "get_history"}
  /\ Len(tloc[t].result) = Len(tcall[t].arg)

\* a lock() that does not wait for the guard of another thread
AcquireNoWait(t) ==
  /\ ~aborted
  /\ Busy(t)
  /\ ~tpc[t].locked
  /\ ~SkipsLock(t)
  /\ ~Answered(t)
  /\ lock' = [lock EXCEPT ![LockOf(StageOf(t))] = t]
  /\ tpc' = [tpc EXCEPT ![t].locked = TRUE]
  /\ acq' = [acq EXCEPT ![t] = Append(@, LockOf(StageOf(t)))]
  /\ UNCHANGED <<utxos, history, reorg_data, aborted, tcall, tloc, tret, calls>>

\* self.<map>.lock().unwrap(): blocks while another guard is alive
Acquire(t) ==
  /\ ~aborted
  /\ Busy(t)
  /\ ~tpc[t].locked
  /\ ~SkipsLock(t)
  /\ ~Answered(t)
  /\ lock[LockOf(StageOf(t))] = "free"
  /\ lock' = [lock EXCEPT ![LockOf(StageOf(t))] = t]
  /\ tpc' = [tpc EXCEPT ![t].locked = TRUE]
  /\ acq' = [acq EXCEPT ![t] = Append(@, LockOf(StageOf(t)))]
  /\ UNCHANGED <<utxos, history, reorg_data, aborted, tcall, tloc, tret, calls>>

\* remove_utxos (122-129) and, back in update, the merge of the input
\* entries into the local history_map (83-90)
ThreadRemoveUtxos(t) ==
  /\ Holding(t, "remove_utxos")
  /\ utxos' = remove_utxos(utxos, only_outpoints(tcall[t].arg.utxo_spent))
  /\ tloc' = [tloc EXCEPT ![t].history_map =
                merge_spent(tcall[t].arg.history_map, tcall[t].arg.utxo_spent,
                            tcall[t].arg.height)]
  /\ Leave(t, Ok(<< >>))
  /\ UNCHANGED <<history, reorg_data, aborted, tcall, acq, calls>>

\* update_history (130-135)
ThreadUpdateHistory(t) ==
  /\ Holding(t, "update_history")
  /\ history' = update_history(history, tloc[t].history_map)
  /\ Leave(t, Ok(<< >>))
  /\ UNCHANGED <<utxos, reorg_data, aborted, tcall, tloc, acq, calls>>

\* insert_utxos (136-138): of the created outpoints in update, of the spent
\* pairs of the popped record in reorg
ThreadInsertUtxos(t) ==
  /\ Holding(t, "insert_utxos")
  /\ utxos' = insert_utxos(utxos,
                 IF tcall[t].op = "update" THEN tcall[t].arg.utxo_created
                 ELSE collect_spent(tloc[t].data.spent))
  /\ Leave(t, Ok(<< >>))
  /\ UNCHANGED <<history, reorg_data, aborted, tcall, tloc, acq, calls>>

\* push_reorg_data (168-179), then update returns Ok(())
ThreadPushReorgData(t) ==
  /\ Holding(t, "push_reorg_data")
  /\ reorg_data' =
       push_reorg_data(reorg_data,
                       ReorgData(tcall[t].arg.height, spent_pairs(tcall[t].arg.utxo_spent),
                                 tloc[t].history_map, tcall[t].arg.utxo_created))
  /\ Leave(t, Ok(<< >>))
  /\ tloc' = [tloc EXCEPT ![t] = NoLocals]
  /\ UNCHANGED <<utxos, history, aborted, tcall, acq, calls>>

\* pop_reorg_data (181-189) on a non-empty deque
ThreadPopReorgData(t) ==
  /\ Holding(t, "pop_reorg_data")
  /\ reorg_data # << >>
  /\ reorg_data' = pop_reorg_data(reorg_data).rest
  /\ tloc' = [tloc EXCEPT ![t].data = pop_reorg_data(reorg_data).data]
  /\ Leave(t, Unit)
  /\ UNCHANGED <<utxos, history, aborted, tcall, acq, calls>>

\* pop_reorg_data on an empty deque: error_panic! with the guard alive
ThreadPopPanics(t) ==
  /\ Holding(t, "pop_reorg_data")
  /\ reorg_data = << >>
  /\ aborted' = TRUE
  /\ UNCHANGED <<utxos, history, reorg_data, threadVars>>

\* remove_utxos_created (140-145)
ThreadRemoveUtxosCreated(t) ==
  /\ Holding(t, "remove_utxos_created")
  /\ utxos' = remove_utxos_created(utxos, tloc[t].data.utxos_created)
  /\ Leave(t, Unit)
  /\ UNCHANGED <<history, reorg_data, aborted, tcall, tloc, acq, calls>>

\* remove_history_entries (147-166) with entries to remove; reorg returns
ThreadRemoveHistoryEntries(t) ==
  /\ Holding(t, "remove_history_entries")
  /\ history' = remove_history_entries(history, tloc[t].data.history)
  /\ Leave(t, Unit)
  /\ tloc' = [tloc EXCEPT ![t] = NoLocals]
  /\ UNCHANGED <<utxos, reorg_data, aborted, tcall, acq, calls>>

\* remove_history_entries (148-150): to_remove is empty, no mutex is locked
ThreadRemoveNoHistory(t) ==
  /\ ~aborted
  /\ Busy(t)
  /\ ~tpc[t].locked
  /\ SkipsLock(t)
  /\ tpc' = [tpc EXCEPT ![t] = Idle]
  /\ tret' = [tret EXCEPT ![t] = Unit]
  /\ tloc' = [tloc EXCEPT ![t] = NoLocals]
  /\ UNCHANGED <<utxos, history, reorg_data, aborted, lock, tcall, acq, calls>>

\* line 49: one element of get_utxos, read under the guard of that statement
ThreadGetUtxos(t) ==
  /\ Holding(t, "get_utxos")
  /\ tloc' = [tloc EXCEPT ![t].result =
                Append(@, MapGetOr(utxos, tcall[t].arg[Len(@) + 1], None))]
  /\ lock' = [lock EXCEPT !["utxos"] = "free"]
  /\ tpc' = [tpc EXCEPT ![t].locked = FALSE]
  /\ UNCHANGED <<utxos, history, reorg_data, aborted, tcall, tret, acq, calls>>

\* lines 60-67: one element of get_history
ThreadGetHistory(t) ==
  /\ Holding(t, "get_history")
  /\ tloc' = [tloc EXCEPT ![t].result =
                Append(@, get_history(history, tcall[t].arg[Len(@) + 1]))]
  /\ lock' = [lock EXCEPT !["history"] = "free"]
  /\ tpc' = [tpc EXCEPT ![t].locked = FALSE]
  /\ UNCHANGED <<utxos, history, reorg_data, aborted, tcall, tret, acq, calls>>

\* lines 51 and 69: Ok(result)
ThreadAnswers(t) ==
  /\ ~aborted
  /\ Busy(t)
  /\ ~tpc[t].locked
  /\ Answered(t)
  /\ tpc' = [tpc EXCEPT ![t] = Idle]
  /\ tret' = [tret EXCEPT ![t] = Ok(tloc[t].result)]
  /\ tloc' = [tloc EXCEPT ![t] = NoLocals]
  /\ UNCHANGED <<utxos, history, reorg_data, aborted, lock, tcall, acq, calls>>

\* what a thread inside a call can do
Step(t) ==
  \/ Acquire(t)
  \/ ThreadRemoveUtxos(t)
  \/ ThreadUpdateHistory(t)
  \/ ThreadInsertUtxos(t)
  \/ ThreadPushReorgData(t)
  \/ ThreadPopReorgData(t)
  \/ ThreadPopPanics(t)
  \/ ThreadRemoveUtxosCreated(t)
  \/ ThreadRemoveHistoryEntries(t)
  \/ ThreadRemoveNoHistory(t)
  \/ ThreadGetUtxos(t)
  \/ ThreadGetHistory(t)
  \/ ThreadAnswers(t)

\* the ghost variables of the sequential runs are not kept by the threads
seqVars == <<call, ret, popped, applied, fresh, reorged, updates>>

(***************************************************************************)
(* Header preload / gap repair: server::preload::headers.                  *)
(***************************************************************************)
\* the canonical chain: block hash and header time of a height
BlockHashAt(height) == <<"hash", height>>
HeaderTime(hash) == 600 * hash[2]

BlockMeta(height, hash, timestamp) ==
  [height |-> height, hash |-> hash, timestamp |-> timestamp]

\* the record the indexer persisted for a height
PersistedMeta(height) ==
  BlockMeta(height, BlockHashAt(height), HeaderTime(BlockHashAt(height)))

\* heights that put a gap next to the repairable maximum
FarHeights ==
  {MAX_HASH_GAP_REPAIR, MAX_HASH_GAP_REPAIR + 1, MAX_HASH_GAP_REPAIR + 2,
   MAX_HASH_GAP_REPAIR + 3}

\* what iter_hash_ts may yield: short sequences over small heights, in any
\* order (a corrupted column included), or at most one small height followed
\* by a far one
PersistedSeqs ==
  LET near == SeqsUpTo(0..MaxPersistedHeight, MaxMetas)
      far == {Append(q, f) : q \in SeqsUpTo(0..1, 1), f \in FarHeights}
  IN {[k \in DOMAIN q |-> PersistedMeta(q[k])] : q \in near \cup far}

\* Result<(), Error>: Err(Error::DBCorrupted(message)) and Ok(())
DBCorrupted(why) == [kind |-> "Err", error |-> "DBCorrupted", why |-> why]
Pending == [kind |-> "pending"]

\* a subtraction that does not saturate at 0
plain_sub(a, b) == a - b

\* gap_end.saturating_sub(gap_start) on u32
saturating_sub(a, b) == IF a >= b THEN a - b ELSE 0

VARIABLES
  persisted,       \* what state.store.iter_hash_ts() yields
  client,          \* "none": client is None; "ok": every request is answered;
                   \* "faulty": a request may fail
  store_faulty,    \* put_hash_ts may return an error
  pc,              \* position of headers()
  cache_lock,      \* holder of the state.blocks_hash_ts mutex
  blocks_hash_ts,  \* state.blocks_hash_ts
  metas,           \* the collected Vec<BlockMeta>
  pos,             \* number of metas the for loop has taken
  i,               \* the expected-height cursor
  gap_end,         \* gap_end of the gap under repair
  height,          \* loop variable of the repair loop
  hash,            \* hash fetched for height
  puts,            \* heights of the successful put_hash_ts calls, in order
  result,          \* value returned by headers()
  attempt,         \* number of this call of headers(), from 1
  prev,            \* the call before this one: what it read, put and returned
  other_seen       \* the cache as another task of the server read it last

preloadVars == <<persisted, client, store_faulty, pc, cache_lock, blocks_hash_ts,
                 metas, pos, i, gap_end, height, hash, puts, result, attempt, prev,
                 other_seen>>

vars == <<storeVars, preloadVars, threadVars>>

\* there was no call before the first
NoCall == [persisted |-> << >>, puts |-> << >>, height |-> 0, result |-> Pending]

PreloadInit ==
  /\ persisted \in PersistedSeqs
  /\ client \in {"none", "ok", "faulty"}
  /\ store_faulty \in BOOLEAN
  /\ pc = "start"
  /\ cache_lock = "free"
  /\ blocks_hash_ts = << >>
  /\ metas = << >>
  /\ pos = 0
  /\ i = 0
  /\ gap_end = 0
  /\ height = 0
  /\ hash = BlockHashAt(0)
  /\ puts = << >>
  /\ result = Pending
  /\ attempt = 1
  /\ prev = NoCall
  /\ other_seen = << >>

\* headers() is not called in the runs of the store
PreloadIdle ==
  /\ persisted = << >>
  /\ client = "none"
  /\ store_faulty = FALSE
  /\ pc = "idle"
  /\ cache_lock = "free"
  /\ blocks_hash_ts = << >>
  /\ metas = << >>
  /\ pos = 0
  /\ i = 0
  /\ gap_end = 0
  /\ height = 0
  /\ hash = BlockHashAt(0)
  /\ puts = << >>
  /\ result = Pending
  /\ attempt = 1
  /\ prev = NoCall
  /\ other_seen = << >>

\* what is fixed during one call of headers()
inputVars == <<persisted, client, store_faulty, attempt, prev>>

meta == metas[pos + 1]

\* return: the guard of the mutex is dropped with the frame
Return(value) ==
  /\ result' = value
  /\ pc' = "done"
  /\ cache_lock' = "free"

\* lines 18-20: lock the cache, collect the persisted records
Start ==
  /\ pc = "start"
  /\ cache_lock = "free"
  /\ cache_lock' = "preload"
  /\ metas' = persisted
  /\ pc' = "loop"
  /\ UNCHANGED <<inputVars, other_seen, blocks_hash_ts, pos, i, gap_end, height, hash, puts, result>>

\* lines 22, 86-87: the record is at the cursor
Accept ==
  /\ pc = "loop"
  /\ pos < Len(metas)
  /\ i = meta.height
  /\ blocks_hash_ts' = Append(blocks_hash_ts, <<meta.hash, meta.timestamp>>)
  /\ i' = i + 1
  /\ pos' = pos + 1
  /\ UNCHANGED <<inputVars, other_seen, pc, cache_lock, metas, gap_end, height, hash, puts, result>>

gap_len == saturating_sub(meta.height, i)

\* lines 27-32: gap_len == 0
OutOfOrder ==
  /\ pc = "loop"
  /\ pos < Len(metas)
  /\ i # meta.height
  /\ gap_len = 0
  /\ Return(DBCorrupted("out-of-order entry"))
  /\ UNCHANGED <<inputVars, other_seen, blocks_hash_ts, metas, pos, i, gap_end, height, hash, puts>>

\* a headers() that, without a client, takes the record past the gap
NoClientAccepts ==
  /\ pc = "loop"
  /\ pos < Len(metas)
  /\ i # meta.height
  /\ gap_len # 0
  /\ client = "none"
  /\ blocks_hash_ts' = Append(blocks_hash_ts, <<meta.hash, meta.timestamp>>)
  /\ i' = meta.height + 1
  /\ pos' = pos + 1
  /\ UNCHANGED <<inputVars, other_seen, pc, cache_lock, metas, gap_end, height, hash, puts, result>>

\* lines 34-41: client.ok_or_else(..)?
NoClient ==
  /\ pc = "loop"
  /\ pos < Len(metas)
  /\ i # meta.height
  /\ gap_len # 0
  /\ client = "none"
  /\ Return(DBCorrupted("gap detected"))
  /\ UNCHANGED <<inputVars, other_seen, blocks_hash_ts, metas, pos, i, gap_end, height, hash, puts>>

\* lines 43-50: gap_len > MAX_HASH_GAP_REPAIR
GapTooLarge ==
  /\ pc = "loop"
  /\ pos < Len(metas)
  /\ i # meta.height
  /\ gap_len # 0
  /\ client # "none"
  /\ gap_len > MAX_HASH_GAP_REPAIR
  /\ Return(DBCorrupted("gap too large to repair"))
  /\ UNCHANGED <<inputVars, other_seen, blocks_hash_ts, metas, pos, i, gap_end, height, hash, puts>>

\* a headers() that repairs a gap of any length
BeginRepairAnyGap ==
  /\ pc = "loop"
  /\ pos < Len(metas)
  /\ i # meta.height
  /\ gap_len # 0
  /\ client # "none"
  /\ height' = i
  /\ gap_end' = meta.height
  /\ pc' = "block_hash"
  /\ UNCHANGED <<inputVars, other_seen, cache_lock, blocks_hash_ts, metas, pos, i, hash, puts, result>>

\* a headers() that drops the guard of the cache before it awaits the client
BeginRepairDropsGuard ==
  /\ pc = "loop"
  /\ pos < Len(metas)
  /\ i # meta.height
  /\ gap_len # 0
  /\ client # "none"
  /\ gap_len <= MAX_HASH_GAP_REPAIR
  /\ height' = i
  /\ gap_end' = meta.height
  /\ pc' = "block_hash"
  /\ cache_lock' = "free"
  /\ UNCHANGED <<inputVars, other_seen, blocks_hash_ts, metas, pos, i, hash, puts, result>>

\* lines 52-61: enter the repair loop and call block_hash(gap_start)
BeginRepair ==
  /\ pc = "loop"
  /\ pos < Len(metas)
  /\ i # meta.height
  /\ gap_len # 0
  /\ client # "none"
  /\ gap_len <= MAX_HASH_GAP_REPAIR
  /\ height' = i
  /\ gap_end' = meta.height
  /\ pc' = "block_hash"
  /\ UNCHANGED <<inputVars, other_seen, cache_lock, blocks_hash_ts, metas, pos, i, hash, puts, result>>

\* lines 60-68: block_hash(height).await answers Some(hash)
BlockHashOk ==
  /\ pc = "block_hash"
  /\ hash' = BlockHashAt(height)
  /\ pc' = "block_header"
  /\ UNCHANGED <<inputVars, other_seen, cache_lock, blocks_hash_ts, metas, pos, i, gap_end, height,
                 puts, result>>

\* lines 63-68: block_hash fails, or answers None
BlockHashFails ==
  /\ pc = "block_hash"
  /\ client = "faulty"
  /\ \E why \in {"failed to fetch block hash", "missing block hash"} :
       Return(DBCorrupted(why))
  /\ UNCHANGED <<inputVars, other_seen, blocks_hash_ts, metas, pos, i, gap_end, height, hash, puts>>

\* lines 69-76: block_header(hash, family).await answers
BlockHeaderOk ==
  /\ pc = "block_header"
  /\ pc' = "put_hash_ts"
  /\ UNCHANGED <<inputVars, other_seen, cache_lock, blocks_hash_ts, metas, pos, i, gap_end, height,
                 hash, puts, result>>

BlockHeaderFails ==
  /\ pc = "block_header"
  /\ client = "faulty"
  /\ Return(DBCorrupted("failed to fetch block header"))
  /\ UNCHANGED <<inputVars, other_seen, blocks_hash_ts, metas, pos, i, gap_end, height, hash, puts>>

\* a repair that persists the record and does not push it into the cache
PutHashTsNoPush ==
  /\ pc = "put_hash_ts"
  /\ puts' = Append(puts, height)
  /\ height' = height + 1
  /\ pc' = IF height + 1 < gap_end THEN "block_hash" ELSE "gap_closed"
  /\ UNCHANGED <<inputVars, other_seen, cache_lock, blocks_hash_ts, metas, pos, i, gap_end, hash,
                 result>>

\* a repair that pushes the record into the cache and does not persist it
PutHashTsSkipsWrite ==
  /\ pc = "put_hash_ts"
  /\ LET repaired == BlockMeta(height, hash, HeaderTime(hash))
     IN blocks_hash_ts' = Append(blocks_hash_ts, <<repaired.hash, repaired.timestamp>>)
  /\ height' = height + 1
  /\ pc' = IF height + 1 < gap_end THEN "block_hash" ELSE "gap_closed"
  /\ UNCHANGED <<inputVars, other_seen, cache_lock, metas, pos, i, gap_end, hash, puts,
                 result>>

\* lines 77-83: persist the repaired record, push it, next height
PutHashTs ==
  /\ pc = "put_hash_ts"
  /\ LET repaired == BlockMeta(height, hash, HeaderTime(hash))
     IN /\ puts' = Append(puts, repaired.height)
        /\ blocks_hash_ts' = Append(blocks_hash_ts, <<repaired.hash, repaired.timestamp>>)
  /\ height' = height + 1
  /\ pc' = IF height + 1 < gap_end THEN "block_hash" ELSE "gap_closed"
  /\ UNCHANGED <<inputVars, other_seen, cache_lock, metas, pos, i, gap_end, hash, result>>

\* line 81: put_hash_ts(..).map_err(..)?
PutHashTsFails ==
  /\ pc = "put_hash_ts"
  /\ store_faulty
  /\ Return(DBCorrupted("failed to write hash meta"))
  /\ UNCHANGED <<inputVars, other_seen, blocks_hash_ts, metas, pos, i, gap_end, height, hash, puts>>

\* a headers() that leaves the cursor at the start of the gap it repaired
CloseGapKeepsCursor ==
  /\ pc = "gap_closed"
  /\ blocks_hash_ts' = Append(blocks_hash_ts, <<meta.hash, meta.timestamp>>)
  /\ i' = i + 1
  /\ pos' = pos + 1
  /\ pc' = "loop"
  /\ UNCHANGED <<inputVars, other_seen, cache_lock, metas, gap_end, height, hash, puts, result>>

\* lines 84-87: i = gap_end, then the record that revealed the gap is accepted
CloseGap ==
  /\ pc = "gap_closed"
  /\ blocks_hash_ts' = Append(blocks_hash_ts, <<meta.hash, meta.timestamp>>)
  /\ i' = gap_end + 1
  /\ pos' = pos + 1
  /\ pc' = "loop"
  /\ UNCHANGED <<inputVars, other_seen, cache_lock, metas, gap_end, height, hash, puts, result>>

\* lines 89-91: the records are exhausted
Finish ==
  /\ pc = "loop"
  /\ pos = Len(metas)
  /\ Return(Ok("unit"))
  /\ UNCHANGED <<inputVars, other_seen, blocks_hash_ts, metas, pos, i, gap_end, height, hash, puts>>

\* put_hash_ts of the persistent store: the column keeps one record per height,
\* in height order
RECURSIVE InsertMeta(_, _)
InsertMeta(column, record) ==
  IF column = << >> THEN <<record>>
  ELSE IF Head(column).height = record.height THEN <<record>> \o Tail(column)
  ELSE IF Head(column).height > record.height THEN <<record>> \o column
  ELSE <<Head(column)>> \o InsertMeta(Tail(column), record)

RECURSIVE InsertAll(_, _)
InsertAll(column, heights) ==
  IF heights = << >> THEN column
  ELSE InsertAll(InsertMeta(column, PersistedMeta(Head(heights))), Tail(heights))

\* what iter_hash_ts yields after the puts of this call
hashes_cf == InsertAll(persisted, puts)

\* headers() returned an error: the server is started again, with a client,
\* on the column as the failed call left it; the cache is new
Retry ==
  /\ pc = "done"
  /\ result.kind = "Err"
  /\ cache_lock = "free"
  /\ attempt < MaxAttempts
  /\ attempt' = attempt + 1
  /\ prev' = [persisted |-> persisted, puts |-> puts, height |-> height, result |-> result]
  /\ persisted' = hashes_cf
  /\ client' \in {"ok", "faulty"}
  /\ store_faulty' = FALSE
  /\ pc' = "start"
  /\ blocks_hash_ts' = << >>
  /\ metas' = << >>
  /\ pos' = 0
  /\ i' = 0
  /\ gap_end' = 0
  /\ height' = 0
  /\ hash' = BlockHashAt(0)
  /\ puts' = << >>
  /\ result' = Pending
  /\ UNCHANGED <<cache_lock, other_seen>>

\* another task of the server locks state.blocks_hash_ts ...
OtherLocks ==
  /\ pc # "idle"
  /\ cache_lock = "free"
  /\ cache_lock' = "other"
  /\ UNCHANGED <<inputVars, other_seen, pc, blocks_hash_ts, metas, pos, i, gap_end, height,
                 hash, puts, result>>

\* ... reads the cache and drops the guard
OtherReads ==
  /\ cache_lock = "other"
  /\ other_seen' = blocks_hash_ts
  /\ cache_lock' = "free"
  /\ UNCHANGED <<inputVars, pc, blocks_hash_ts, metas, pos, i, gap_end, height, hash, puts,
                 result>>

Init == StoreInit /\ PreloadIdle /\ ThreadsInit

Next ==
  \/ \E block \in Blocks :
        updates < MaxUpdates /\ Update(block) /\ UNCHANGED <<preloadVars, threadVars>>
  \/ Reorg /\ UNCHANGED <<preloadVars, threadVars>>
  \/ ReorgPanic /\ UNCHANGED <<preloadVars, threadVars>>

Spec == Init /\ [][Next]_vars

DeepNext ==
  \/ \E block \in DeepBlocks :
        updates < MaxDeepUpdates /\ Update(block) /\ UNCHANGED <<preloadVars, threadVars>>
  \/ Reorg /\ UNCHANGED <<preloadVars, threadVars>>
  \/ ReorgPanic /\ UNCHANGED <<preloadVars, threadVars>>
  \/ \E outpoints \in Queries : GetUtxos(outpoints) /\ UNCHANGED <<preloadVars, threadVars>>

SpecDeep == Init /\ [][DeepNext]_vars

SpendNext ==
  \/ \E block \in SpendBlocks :
        updates < MaxUpdates /\ Update(block) /\ UNCHANGED <<preloadVars, threadVars>>
  \/ Reorg /\ UNCHANGED <<preloadVars, threadVars>>
  \/ ReorgPanic /\ UNCHANGED <<preloadVars, threadVars>>

SpecSpend == Init /\ [][SpendNext]_vars

PreloadNext ==
  \/ Start /\ UNCHANGED <<storeVars, threadVars>>
  \/ Accept /\ UNCHANGED <<storeVars, threadVars>>
  \/ OutOfOrder /\ UNCHANGED <<storeVars, threadVars>>
  \/ NoClient /\ UNCHANGED <<storeVars, threadVars>>
  \/ GapTooLarge /\ UNCHANGED <<storeVars, threadVars>>
  \/ BeginRepair /\ UNCHANGED <<storeVars, threadVars>>
  \/ BlockHashOk /\ UNCHANGED <<storeVars, threadVars>>
  \/ BlockHashFails /\ UNCHANGED <<storeVars, threadVars>>
  \/ BlockHeaderOk /\ UNCHANGED <<storeVars, threadVars>>
  \/ BlockHeaderFails /\ UNCHANGED <<storeVars, threadVars>>
  \/ PutHashTs /\ UNCHANGED <<storeVars, threadVars>>
  \/ PutHashTsFails /\ UNCHANGED <<storeVars, threadVars>>
  \/ CloseGap /\ UNCHANGED <<storeVars, threadVars>>
  \/ Finish /\ UNCHANGED <<storeVars, threadVars>>
  \/ OtherLocks /\ UNCHANGED <<storeVars, threadVars>>
  \/ OtherReads /\ UNCHANGED <<storeVars, threadVars>>

ThreadNext ==
  \/ \E t \in Threads, c \in ThreadCalls :
        Begin(t, c) /\ UNCHANGED <<seqVars, preloadVars>>
  \/ \E t \in Threads : Acquire(t) /\ UNCHANGED <<seqVars, preloadVars>>
  \/ \E t \in Threads : ThreadRemoveUtxos(t) /\ UNCHANGED <<seqVars, preloadVars>>
  \/ \E t \in Threads : ThreadUpdateHistory(t) /\ UNCHANGED <<seqVars, preloadVars>>
  \/ \E t \in Threads : ThreadInsertUtxos(t) /\ UNCHANGED <<seqVars, preloadVars>>
  \/ \E t \in Threads : ThreadPushReorgData(t) /\ UNCHANGED <<seqVars, preloadVars>>
  \/ \E t \in Threads : ThreadPopReorgData(t) /\ UNCHANGED <<seqVars, preloadVars>>
  \/ \E t \in Threads : ThreadPopPanics(t) /\ UNCHANGED <<seqVars, preloadVars>>
  \/ \E t \in Threads : ThreadRemoveUtxosCreated(t) /\ UNCHANGED <<seqVars, preloadVars>>
  \/ \E t \in Threads : ThreadRemoveHistoryEntries(t) /\ UNCHANGED <<seqVars, preloadVars>>
  \/ \E t \in Threads : ThreadRemoveNoHistory(t) /\ UNCHANGED <<seqVars, preloadVars>>
  \/ \E t \in Threads : ThreadGetUtxos(t) /\ UNCHANGED <<seqVars, preloadVars>>
  \/ \E t \in Threads : ThreadGetHistory(t) /\ UNCHANGED <<seqVars, preloadVars>>
  \/ \E t \in Threads : ThreadAnswers(t) /\ UNCHANGED <<seqVars, preloadVars>>

SpecThreads == Init /\ [][ThreadNext]_vars

\* every thread inside a call is scheduled again and again
SpecThreadsFair ==
  SpecThreads /\ \A t \in Threads : WF_vars(Step(t) /\ UNCHANGED <<seqVars, preloadVars>>)

\* headers() runs on a store that no update has touched
InitPreload == StoreInit /\ PreloadInit /\ ThreadsInit

SpecPreload == InitPreload /\ [][PreloadNext]_vars

\* the columns of the runs with retries: the short sequences, and one with a
\* gap that is too large
RetrySeqs ==
  {q \in PersistedSeqs :
     \A k \in DOMAIN q : q[k].height <= MaxPersistedHeight
                           \/ (Len(q) = 1 /\ q[k].height = MAX_HASH_GAP_REPAIR + 1)}

InitRetry == InitPreload /\ persisted \in RetrySeqs

RetryNext ==
  \/ Start /\ UNCHANGED <<storeVars, threadVars>>
  \/ Accept /\ UNCHANGED <<storeVars, threadVars>>
  \/ OutOfOrder /\ UNCHANGED <<storeVars, threadVars>>
  \/ NoClient /\ UNCHANGED <<storeVars, threadVars>>
  \/ GapTooLarge /\ UNCHANGED <<storeVars, threadVars>>
  \/ BeginRepair /\ UNCHANGED <<storeVars, threadVars>>
  \/ BlockHashOk /\ UNCHANGED <<storeVars, threadVars>>
  \/ BlockHashFails /\ UNCHANGED <<storeVars, threadVars>>
  \/ BlockHeaderOk /\ UNCHANGED <<storeVars, threadVars>>
  \/ BlockHeaderFails /\ UNCHANGED <<storeVars, threadVars>>
  \/ PutHashTs /\ UNCHANGED <<storeVars, threadVars>>
  \/ PutHashTsFails /\ UNCHANGED <<storeVars, threadVars>>
  \/ CloseGap /\ UNCHANGED <<storeVars, threadVars>>
  \/ Finish /\ UNCHANGED <<storeVars, threadVars>>
  \/ Retry /\ UNCHANGED <<storeVars, threadVars>>

SpecRetry == InitRetry /\ [][RetryNext]_vars

(***************************************************************************)
(* Claims about the in-memory store.                                       *)
(***************************************************************************)
\* the undo record update pushes for a block
RecordOf(block) ==
  ReorgData(block.height, spent_pairs(block.utxo_spent), Contributed(block),
            block.utxo_created)

\* C1: whatever the state and the block, update followed at once by reorg
\* leaves the UTXO set and the history index equal to their values before
\* the update (the record of that update is the last one pushed, so it is
\* the one reorg pops).
C1_UpdateThenReorgRestores ==
  ~aborted =>
    \A block \in Blocks :
      LET st1 == update(store, block)
          st2 == reorg(st1)
      IN /\ pop_reorg_data(st1.reorg_data).data = RecordOf(block)
         /\ st2.utxos = utxos
         /\ st2.history = history

\* C2: reorg is LIFO: update(A), update(B), reorg, reorg from any state pops
\* the record of B first and the record of A second, and leaves the UTXO set
\* and the history index as they were before A (the undo bound being at
\* least 2).
C2_ReorgIsLifo ==
  (~aborted /\ REORG_BUFFER_MAX_DEPTH >= 2) =>
    \A A \in Blocks, B \in Blocks :
      LET st2 == update(update(store, A), B)
          st3 == reorg(st2)
          st4 == reorg(st3)
      IN /\ pop_reorg_data(st2.reorg_data).data = RecordOf(B)
         /\ pop_reorg_data(st3.reorg_data).data = RecordOf(A)
         /\ st4.utxos = utxos
         /\ st4.history = history

\* outpoints the k-th applied block creates and spends
CreatedBy(k) == DOMAIN applied[k].utxo_created
SpentBy(k) == Range(only_outpoints(applied[k].utxo_spent))

AllCreated == UNION {CreatedBy(k) : k \in DOMAIN applied}
AllSpent == UNION {SpentBy(k) : k \in DOMAIN applied}

\* only update calls so far: applied lists every block passed to update
OnlyUpdates == ~reorged /\ Len(applied) = updates

\* no outpoint is created by two blocks, no block spends an outpoint it creates
DisjointOutpoints ==
  /\ \A j \in DOMAIN applied, k \in DOMAIN applied :
        j # k => CreatedBy(j) \cap CreatedBy(k) = {}
  /\ \A k \in DOMAIN applied : CreatedBy(k) \cap SpentBy(k) = {}

\* no block spends an outpoint that a later block creates
NoSpendBeforeCreate ==
  \A j \in DOMAIN applied, k \in DOMAIN applied :
    j < k => SpentBy(j) \cap CreatedBy(k) = {}

\* the UTXO map is (created by the applied blocks) minus (spent by them),
\* each outpoint with the script hash of its creation
UtxosAreCreatedMinusSpent ==
  /\ DOMAIN utxos = AllCreated \ AllSpent
  /\ \A o \in DOMAIN utxos :
        \E k \in DOMAIN applied :
          o \in CreatedBy(k) /\ utxos[o] = applied[k].utxo_created[o]

\* C3 as stated: from the empty store, after N updates whose blocks use
\* disjoint outpoints, the UTXO map is the created outpoints minus the spent
\* ones, each mapped to the script hash it was created with.
C3_Stated == (OnlyUpdates /\ DisjointOutpoints) => UtxosAreCreatedMinusSpent

\* C3 amended: the same, provided also that no block spends an outpoint
\* which a later block creates.
C3_UtxoSetAfterUpdates ==
  (OnlyUpdates /\ DisjointOutpoints /\ NoSpendBeforeCreate) => UtxosAreCreatedMinusSpent

\* two updates, the second spending what the first created and creating
\* another outpoint, which is the one left
C3_Witness ==
  /\ OnlyUpdates /\ DisjointOutpoints /\ NoSpendBeforeCreate
  /\ Len(applied) = 2
  /\ CreatedBy(1) \cap SpentBy(2) # {}
  /\ DOMAIN utxos # {}
  /\ DOMAIN utxos = AllCreated \ AllSpent

\* C4: after every completed update or reorg the undo buffer holds at most
\* REORG_BUFFER_MAX_DEPTH records; an update returns Ok and leaves its record
\* at the back, and when the buffer was at the bound it drops exactly the
\* front record and keeps the newer ones in order.
C4_UndoBufferBounded ==
  [][(call'.op \in {"update", "reorg"}) =>
       /\ Len(reorg_data') <= REORG_BUFFER_MAX_DEPTH
       /\ (call'.op = "update") =>
            /\ ret' = Ok("unit")
            /\ reorg_data' =
                 IF Len(reorg_data) = REORG_BUFFER_MAX_DEPTH
                 THEN Append(Tail(reorg_data), RecordOf(call'.arg))
                 ELSE Append(reorg_data, RecordOf(call'.arg))]_vars

\* an update has just evicted the oldest record: more blocks are applied
\* than records are kept
C4_Witness ==
  /\ call.op = "update"
  /\ ret = Ok("unit")
  /\ Len(reorg_data) = REORG_BUFFER_MAX_DEPTH
  /\ Len(applied) > REORG_BUFFER_MAX_DEPTH
  /\ RecordOf(applied[Len(applied) - REORG_BUFFER_MAX_DEPTH]) \notin Range(reorg_data)

\* C5: a reorg called on an empty undo buffer aborts, without returning and
\* before any change to the UTXO set or the history index; a reorg called on
\* a non-empty buffer returns and does not abort.
C5_ReorgOnEmptyAborts ==
  [][(call'.op = "reorg") =>
       IF reorg_data = << >>
       THEN aborted' /\ ret' = ret /\ utxos' = utxos /\ history' = history
       ELSE ~aborted' /\ ret' = Unit]_vars

\* the abort after an eviction: every retained record was undone, the
\* evicted block is still applied
C5_Witness ==
  /\ aborted
  /\ reorged
  /\ reorg_data = << >>
  /\ Len(applied) >= 1

\* the entries the applied blocks contributed to a script, in application order
RECURSIVE ContributedTo(_, _)
ContributedTo(script, blocks) ==
  IF blocks = << >> THEN << >>
  ELSE MapGetOr(Contributed(Head(blocks)), script, << >>)
         \o ContributedTo(script, Tail(blocks))

HistoryIsContributions ==
  \A s \in Scripts : get_history(history, s) = ContributedTo(s, applied)

\* C6 as stated: after any updates and successful reorgs the history of each
\* script is the concatenation, in application order, of the entries of the
\* blocks applied and not undone.
C6_Stated == HistoryIsContributions

\* C6 amended: the same, provided no update added to a script an entry equal
\* in (transaction id, height, marker) to an entry then in that script's
\* history.
C6_HistoryIsConcatenation == fresh => HistoryIsContributions

\* a reorg undid a block that touched a script which keeps two or more
\* earlier entries
C6_Witness ==
  /\ fresh
  /\ ~aborted
  /\ call.op = "reorg"
  /\ \E s \in DOMAIN popped.history : Len(get_history(history, s)) >= 2

\* the entries that equal none of gone in transaction id, height and marker
RECURSIVE Unmatched(_, _)
Unmatched(entries, gone) ==
  IF entries = << >> THEN << >>
  ELSE LET e == Head(entries)
           hit == \E k \in DOMAIN gone :
                    <<e.txid, e.height, e.v>> = <<gone[k].txid, gone[k].height, gone[k].v>>
       IN (IF hit THEN << >> ELSE <<e>>) \o Unmatched(Tail(entries), gone)

\* C7: a reorg removes from the history only entries of the scripts of the
\* popped record that equal one of its entries in transaction id, height and
\* marker; all other entries, of these and of other scripts, stay in order.
C7_ReorgRemovesOnlyMatching ==
  [][(call'.op = "reorg" /\ reorg_data # << >>) =>
       LET record == reorg_data[Len(reorg_data)]
       IN \A s \in Scripts :
            get_history(history', s) =
              Unmatched(get_history(history, s), MapGetOr(record.history, s, << >>))]_vars

\* a reorg left, in a script of the popped record, an entry of the same
\* transaction and height but another marker, and another script untouched
C7_Witness ==
  /\ call.op = "reorg"
  /\ ~aborted
  /\ \E s \in DOMAIN popped.history :
       \E k \in DOMAIN popped.history[s], j \in DOMAIN get_history(history, s) :
         /\ history[s][j].txid = popped.history[s][k].txid
         /\ history[s][j].height = popped.history[s][k].height
         /\ history[s][j].v # popped.history[s][k].v
  /\ \E s \in Scripts \ DOMAIN popped.history : get_history(history, s) # << >>

\* C8: get_utxos returns Ok with one element per outpoint asked, in order:
\* the owning script hash when the outpoint is in the UTXO set, absent
\* otherwise; the maps and the undo buffer are unchanged.
C8_GetUtxos ==
  [][(call'.op = "get_utxos") =>
       /\ ret'.kind = "Ok"
       /\ Len(ret'.value) = Len(call'.arg)
       /\ \A k \in 1..Len(call'.arg) :
            ret'.value[k] = (IF call'.arg[k] \in DOMAIN utxos
                             THEN utxos[call'.arg[k]] ELSE None)
       /\ UNCHANGED <<utxos, history, reorg_data>>]_vars

\* a call that found its first outpoint and not its second, which no block
\* ever created
C8_Witness ==
  /\ call.op = "get_utxos"
  /\ Len(call.arg) = 2
  /\ ret.value[1] \in Scripts
  /\ ret.value[2] = None
  /\ OnlyUpdates
  /\ call.arg[2] \notin AllCreated

(***************************************************************************)
(* Claims about the header preload.                                        *)
(***************************************************************************)
PersistedHeights == {persisted[k].height : k \in DOMAIN persisted}

\* the cache entry of a height
EntryAt(h) == <<BlockHashAt(h), HeaderTime(BlockHashAt(h))>>

\* the k-th persisted record is the first off the cursor, and it is ahead of it
RevealsGap(k) ==
  /\ k \in DOMAIN persisted
  /\ persisted[k].height > k - 1
  /\ \A j \in 1..(k - 1) : persisted[j].height = j - 1

\* C9: without a client, on a persisted sequence whose first record off the
\* cursor is ahead of it, headers() returns a DBCorrupted error, never calls
\* put_hash_ts, and the cache holds only the records before that one.
C9_NoClientGapIsCorrupted ==
  \A k \in DOMAIN persisted :
    (client = "none" /\ RevealsGap(k)) =>
      /\ puts = << >>
      /\ result.kind # "Ok"
      /\ Len(blocks_hash_ts) <= k - 1
      /\ \A j \in DOMAIN blocks_hash_ts :
           blocks_hash_ts[j] = <<persisted[j].hash, persisted[j].timestamp>>
      /\ (pc = "done") =>
           /\ result.kind = "Err"
           /\ result.error = "DBCorrupted"
           /\ Len(blocks_hash_ts) = k - 1

\* heights 0 and 2 persisted, no client: the error is returned with the
\* record of height 0 alone in the cache
C9_Witness ==
  /\ client = "none"
  /\ pc = "done"
  /\ Len(persisted) = 2
  /\ persisted[1].height = 0
  /\ persisted[2].height = 2
  /\ result.kind = "Err"
  /\ Len(blocks_hash_ts) = 1

StrictlyAscending ==
  \A j \in DOMAIN persisted, k \in DOMAIN persisted :
    j < k => persisted[j].height < persisted[k].height

\* every gap, the one before the first record included, is repairable
GapsRepairable ==
  \A k \in DOMAIN persisted :
    persisted[k].height - (IF k = 1 THEN 0 ELSE persisted[k - 1].height + 1)
      <= MAX_HASH_GAP_REPAIR

TopHeight == CHOOSE h \in PersistedHeights : \A g \in PersistedHeights : g <= h

\* heights up to n that no persisted record has
MissingBelow(n) == {h \in 0..(n - 1) : h \notin PersistedHeights}

\* C10: with an empty cache, a client that answers every request (and a store
\* whose put_hash_ts succeeds) and strictly ascending persisted heights with
\* repairable gaps, headers() returns Ok; the cache then holds one entry per
\* height from 0 to the highest persisted one, in height order; put_hash_ts
\* was called once per missing height, in ascending order, each before the
\* record past it entered the cache.
C10_RepairFillsTheCache ==
  (pc # "idle" /\ client = "ok" /\ ~store_faulty /\ StrictlyAscending /\ GapsRepairable) =>
    /\ result.kind # "Err"
    /\ \A k \in DOMAIN blocks_hash_ts : blocks_hash_ts[k] = EntryAt(k - 1)
    /\ \A k \in 1..(Len(puts) - 1) : puts[k] < puts[k + 1]
    /\ Range(puts) = MissingBelow(Len(blocks_hash_ts))
    /\ (pc = "done") =>
         /\ result = Ok("unit")
         /\ Len(blocks_hash_ts) =
              (IF persisted = << >> THEN 0 ELSE TopHeight + 1)

\* heights 0 and 2 persisted: height 1 was put, the cache holds 0, 1, 2
C10_Witness ==
  /\ client = "ok"
  /\ ~store_faulty
  /\ pc = "done"
  /\ Len(persisted) = 2
  /\ persisted[1].height = 0
  /\ persisted[2].height = 2
  /\ result = Ok("unit")
  /\ puts = <<1>>
  /\ blocks_hash_ts = <<EntryAt(0), EntryAt(1), EntryAt(2)>>

\* the cursor when the k-th persisted record is read, the records before it
\* having been accepted
CursorAt(k) == IF k = 1 THEN 0 ELSE persisted[k - 1].height + 1

GapBefore(k) == persisted[k].height - CursorAt(k)

\* headers() is waiting for the client, or for put_hash_ts, in the repair loop
InRepairCall == pc \in {"block_hash", "block_header", "put_hash_ts"}

\* the k-th record is the first one past a gap longer than the maximum: the
\* records before it are at or ahead of the cursor with repairable gaps
TooLargeAt(k) ==
  /\ k \in DOMAIN persisted
  /\ \A j \in 1..(k - 1) : GapBefore(j) >= 0 /\ GapBefore(j) <= MAX_HASH_GAP_REPAIR
  /\ GapBefore(k) > MAX_HASH_GAP_REPAIR

\* some gap is exactly the maximum
ExactGapAt(k) ==
  /\ k \in DOMAIN persisted
  /\ GapBefore(k) = MAX_HASH_GAP_REPAIR

\* C11: with a client, on a persisted sequence whose k-th record is past a gap
\* longer than MAX_HASH_GAP_REPAIR, headers() returns a DBCorrupted error and
\* never asks the client or put_hash_ts for a height of that gap (the cache
\* stops at the gap start); with a client that answers, a store that writes
\* and ascending records, a gap of exactly MAX_HASH_GAP_REPAIR is repaired:
\* every height of it is put and headers() returns Ok.
C11_GapTooLargeIsCorrupted ==
  /\ \A k \in DOMAIN persisted :
       (pc # "idle" /\ client # "none" /\ TooLargeAt(k)) =>
         /\ result.kind # "Ok"
         /\ \A p \in DOMAIN puts : puts[p] < CursorAt(k)
         /\ InRepairCall => height < CursorAt(k)
         /\ Len(blocks_hash_ts) <= CursorAt(k)
         /\ (pc = "done") =>
              /\ result.kind = "Err"
              /\ result.error = "DBCorrupted"
              /\ (client = "ok" /\ ~store_faulty) =>
                   /\ result = DBCorrupted("gap too large to repair")
                   /\ Len(blocks_hash_ts) = CursorAt(k)
  /\ \A k \in DOMAIN persisted :
       (pc = "done" /\ client = "ok" /\ ~store_faulty /\ StrictlyAscending
          /\ GapsRepairable /\ ExactGapAt(k)) =>
         /\ result = Ok("unit")
         /\ \A h \in CursorAt(k)..(persisted[k].height - 1) : h \in Range(puts)
         /\ Len(blocks_hash_ts) = TopHeight + 1

\* height 1 persisted, then a height 1001 past it: the gap at 0 was repaired
\* with one put, the gap of 1001 heights was refused with a client at hand
C11_Witness ==
  /\ client = "ok"
  /\ ~store_faulty
  /\ pc = "done"
  /\ Len(persisted) = 2
  /\ persisted[1].height = 1
  /\ GapBefore(2) = MAX_HASH_GAP_REPAIR + 1
  /\ result = DBCorrupted("gap too large to repair")
  /\ puts = <<0>>
  /\ Len(blocks_hash_ts) = 2

\* the k-th record is the first one behind the cursor: the records before it
\* are at or ahead of the cursor, with gaps that headers() repairs (none
\* without a client)
OutOfOrderAt(k) ==
  /\ k \in DOMAIN persisted
  /\ \A j \in 1..(k - 1) :
       /\ GapBefore(j) >= 0
       /\ GapBefore(j) <= MAX_HASH_GAP_REPAIR
       /\ (client = "none") => GapBefore(j) = 0
  /\ GapBefore(k) < 0

\* the heights below the cursor at the k-th record that no record before it has
MissingBefore(k) ==
  {h \in 0..(CursorAt(k) - 1) : \A j \in 1..(k - 1) : persisted[j].height # h}

\* C12: on a persisted sequence whose k-th record has a height below the
\* cursor (a duplicate or a height out of order), with or without a client,
\* headers() returns a DBCorrupted error: the record is not taken into the
\* cache, and the client and put_hash_ts are asked for nothing but the
\* heights missing before that record; when those were repaired, the error is
\* the out-of-order one and the cache holds the heights below the cursor.
C12_OutOfOrderIsCorrupted ==
  \A k \in DOMAIN persisted :
    (pc # "idle" /\ OutOfOrderAt(k)) =>
      /\ result.kind # "Ok"
      /\ Len(blocks_hash_ts) <= CursorAt(k)
      /\ \A j \in DOMAIN blocks_hash_ts : blocks_hash_ts[j] = EntryAt(j - 1)
      /\ Range(puts) \subseteq MissingBefore(k)
      /\ InRepairCall => height \in MissingBefore(k)
      /\ (client = "none") => (puts = << >> /\ ~InRepairCall)
      /\ (pc = "done") =>
           /\ result.kind = "Err"
           /\ result.error = "DBCorrupted"
           /\ (client # "faulty" /\ ~store_faulty) =>
                /\ result = DBCorrupted("out-of-order entry")
                /\ Len(blocks_hash_ts) = CursorAt(k)
                /\ Range(puts) = MissingBefore(k)

\* heights 0, 1, 1 persisted and a client that answers: the duplicate is
\* refused, nothing was put, the cache holds heights 0 and 1
C12_Witness ==
  /\ client = "ok"
  /\ pc = "done"
  /\ Len(persisted) = 3
  /\ persisted[1].height = 0
  /\ persisted[2].height = 1
  /\ persisted[3].height = 1
  /\ result = DBCorrupted("out-of-order entry")
  /\ puts = << >>
  /\ blocks_hash_ts = <<EntryAt(0), EntryAt(1)>>

(***************************************************************************)
(* Claims about update with spent outpoints.                               *)
(***************************************************************************)
\* the input entries of a block for a script, one per spent utxo of that
\* script, in the order of the spent list
SynthesizedFor(script, block) ==
  LET owned(spent) == spent.script_hash = script
      mine == SelectSeq(block.utxo_spent, owned)
  IN [k \in DOMAIN mine |-> TxSeen(mine[k].txid, block.height, Vin(mine[k].vin))]

\* the additions the caller passed for a script
SuppliedFor(script, block) == MapGetOr(block.history_map, script, << >>)

SpentOutpoints(block) == {block.utxo_spent[k].outpoint : k \in DOMAIN block.utxo_spent}

SpentScripts(block) == {block.utxo_spent[k].script_hash : k \in DOMAIN block.utxo_spent}

\* the undo record of a block, written from its parts
UndoRecordOf(block) ==
  [height |-> block.height,
   spent |-> [k \in DOMAIN block.utxo_spent |->
                <<block.utxo_spent[k].outpoint, block.utxo_spent[k].script_hash>>],
   history |-> [s \in (DOMAIN block.history_map) \cup SpentScripts(block) |->
                  SuppliedFor(s, block) \o SynthesizedFor(s, block)],
   utxos_created |-> block.utxo_created]

\* C13: an update whose spent list names an outpoint that is not in the UTXO
\* set returns Ok and applies the whole block: the spent outpoints that are
\* there are removed, the created ones inserted with their script, every
\* script's history gets the caller's additions and then one input entry per
\* spent utxo of that script (the missing one included), and one undo record
\* for the block is at the back of the undo buffer.
C13_MissingSpentIsNotAnError ==
  [][(call'.op = "update" /\ ~(SpentOutpoints(call'.arg) \subseteq DOMAIN utxos)) =>
       LET block == call'.arg
       IN /\ ret' = Ok("unit")
          /\ DOMAIN utxos' =
               ((DOMAIN utxos) \ SpentOutpoints(block)) \cup DOMAIN block.utxo_created
          /\ \A o \in DOMAIN utxos' :
               utxos'[o] = (IF o \in DOMAIN block.utxo_created
                            THEN block.utxo_created[o] ELSE utxos[o])
          /\ \A s \in Scripts :
               get_history(history', s) =
                 get_history(history, s) \o SuppliedFor(s, block) \o SynthesizedFor(s, block)
          /\ reorg_data' # << >>
          /\ reorg_data'[Len(reorg_data')] = UndoRecordOf(block)
          /\ Len(reorg_data') =
               (IF Len(reorg_data) < REORG_BUFFER_MAX_DEPTH
                THEN Len(reorg_data) + 1 ELSE REORG_BUFFER_MAX_DEPTH)]_vars

\* a first block created o1; the second spent o2, which no block had created,
\* then o1, and created o2: o1 is gone, o2 is there, both scripts have the
\* input entry of the second block
C13_Witness ==
  /\ call.op = "update"
  /\ ret = Ok("unit")
  /\ OnlyUpdates
  /\ Len(applied) = 2
  /\ applied[1].utxo_spent = << >>
  /\ DOMAIN applied[1].utxo_created = {"o1"}
  /\ only_outpoints(applied[2].utxo_spent) = <<"o2", "o1">>
  /\ DOMAIN applied[2].utxo_created = {"o2"}
  /\ DOMAIN utxos = {"o2"}
  /\ \A s \in Scripts :
       \E k \in DOMAIN get_history(history, s) : history[s][k].v[1] = "Vin"
  /\ Len(reorg_data) = 2

(***************************************************************************)
(* Claims about the store under threads.                                   *)
(***************************************************************************)
\* the order the locking discipline names: UTXO set, history, undo buffer
LockRank(l) ==
  CASE l = "utxos" -> 1
    [] l = "history" -> 2
    [] l = "reorg_data" -> 3

IsPrefix(p, q) == Len(p) <= Len(q) /\ \A k \in DOMAIN p : p[k] = q[k]

Returned(t) == ~Busy(t) /\ tcall[t].op # "none"

Guarded(l) ==
  CASE l = "utxos" -> utxos
    [] l = "history" -> history
    [] l = "reorg_data" -> reorg_data

\* thread t is inside a section of mutex l
InSection(t, l) == Busy(t) /\ tpc[t].locked /\ LockOf(StageOf(t)) = l

\* C15: every single map operation is atomic: two threads are never inside
\* sections of the same mutex, a map changes only in the step in which the
\* thread holding its mutex leaves its section (and no other map changes in
\* that step), and a reader takes an element only while it holds the mutex of
\* the map it reads.  (That update as a whole is not atomic is the state
\* C15_Witness, which a reader reaches.)
C15_MapOperationsAreAtomic ==
  /\ [](\A t \in Threads, u \in Threads, l \in Locks :
          (InSection(t, l) /\ InSection(u, l)) => t = u)
  /\ [][/\ \A l \in Locks :
             (Guarded(l)' # Guarded(l)) =>
               /\ lock[l] \in Threads
               /\ InSection(lock[l], l)
               /\ lock'[l] = "free"
               /\ \A m \in Locks \ {l} : Guarded(m)' = Guarded(m)
        /\ \A t \in Threads :
             (Busy(t) /\ Busy(t)' /\ tloc'[t].result # tloc[t].result) =>
               /\ InSection(t, LockOf(StageOf(t)))
               /\ lock[LockOf(StageOf(t))] = t]_vars

\* a get_utxos for o1 and o2 that began when o1 was unspent has read both as
\* absent, and is about to return that, while the update that spends o1 and
\* creates o2 is between its update_history and its insert_utxos (the record
\* on top of the undo buffer is still the one that created o1): it saw the
\* spent outpoint removed and not the created one, which is the UTXO set
\* neither before the update nor after it, with the history additions
\* already in the index
C15_Witness ==
  \E w \in Threads, r \in Threads :
    /\ tcall[w].op = "update"
    /\ only_outpoints(tcall[w].arg.utxo_spent) = <<"o1">>
    /\ tcall[w].arg.utxo_created = ("o2" :> "s2")
    /\ Busy(w)
    /\ StageOf(w) = "insert_utxos"
    /\ reorg_data # << >>
    /\ reorg_data[Len(reorg_data)].utxos_created = ("o1" :> "s1")
    /\ utxos = EmptyMap
    /\ tcall[r] = Call("get_utxos", <<"o1", "o2">>)
    /\ Busy(r)
    /\ Answered(r)
    /\ tloc[r].at_entry = <<"s1", None>>
    /\ tloc[r].result = <<None, None>>
    /\ tloc[r].result # get_utxos(("o1" :> "s1"), tcall[r].arg)
    /\ tloc[r].result # get_utxos(("o2" :> "s2"), tcall[r].arg)
    /\ \E k \in DOMAIN get_history(history, "s1") : history["s1"][k].v = Vin(0)

(***************************************************************************)
(* Claims about the lock of the preload cache.                             *)
(***************************************************************************)
\* headers() has locked the cache and has not returned
Running == pc \notin {"idle", "start", "done"}

\* C16: headers() holds the lock of the cache from before it reads the
\* persisted records until it returns, Ok or error, the waits for block_hash,
\* block_header and put_hash_ts included: the records are collected and the
\* cache is changed only under the lock, the lock is given up only in the
\* step that returns, and another task holds the lock, and reads the cache,
\* only before headers() has locked it or after it has returned.
C16_CacheLockedThroughout ==
  /\ [](Running => cache_lock = "preload")
  /\ []((cache_lock = "other") => pc \in {"start", "done"})
  /\ [][/\ (metas' # metas) => (cache_lock = "free" /\ cache_lock' = "preload")
        /\ (blocks_hash_ts' # blocks_hash_ts) =>
             (cache_lock = "preload" /\ cache_lock' = "preload")
        /\ (cache_lock = "preload" /\ cache_lock' # "preload") =>
             (pc' = "done" /\ result'.kind \in {"Ok", "Err"} /\ cache_lock' = "free")
        /\ (other_seen' # other_seen) =>
             (pc = "done" /\ other_seen' = blocks_hash_ts)]_vars

\* headers() repaired height 1 between heights 0 and 2 and returned; the
\* other task, which could not read before, has now read all three entries
C16_Witness ==
  /\ pc = "done"
  /\ result = Ok("unit")
  /\ puts = <<1>>
  /\ cache_lock = "free"
  /\ other_seen = <<EntryAt(0), EntryAt(1), EntryAt(2)>>

(***************************************************************************)
(* Claims about a failed repair and the retry.                             *)
(***************************************************************************)
HeightsOf(column) == {column[k].height : k \in DOMAIN column}

Ascending(column) ==
  \A j \in DOMAIN column, k \in DOMAIN column :
    j < k => column[j].height < column[k].height

\* the errors of lines 63-68, 72-76 and 81
RepairFailures ==
  {DBCorrupted("failed to fetch block hash"), DBCorrupted("missing block hash"),
   DBCorrupted("failed to fetch block header"), DBCorrupted("failed to write hash meta")}

\* C17: (1) a block_hash, block_header or put_hash_ts that fails at height h
\* of a gap makes headers() return a DBCorrupted error in that step; the
\* column then has a record for every height of the gap below h and, the
\* persisted heights ascending, none for h up to the gap end.  (2) A retry
\* with an empty cache and a client that answers, on the column a failed
\* repair of ascending records left, reads ascending records, puts nothing
\* below h and nothing the failed call had put, and returns Ok after puts
\* that begin at h, with one cache entry per height from 0 to the top.
C17_FailedRepairIsResumed ==
  /\ [][(InRepairCall /\ pc' = "done") =>
          /\ result' \in RepairFailures
          /\ puts' = puts
          /\ blocks_hash_ts' = blocks_hash_ts
          /\ \A p \in DOMAIN puts : puts[p] < height
          /\ \A g \in i..(height - 1) : g \in HeightsOf(hashes_cf)
          /\ Ascending(persisted) =>
               \A g \in height..(gap_end - 1) : g \notin HeightsOf(hashes_cf)]_vars
  /\ []((attempt > 1 /\ prev.result \in RepairFailures /\ Ascending(prev.persisted)
           /\ client = "ok") =>
          /\ persisted = InsertAll(prev.persisted, prev.puts)
          /\ Ascending(persisted)
          /\ result.kind # "Err"
          /\ \A p \in DOMAIN puts :
               puts[p] >= prev.height /\ puts[p] \notin Range(prev.puts)
          /\ (pc = "done") =>
               /\ result = Ok("unit")
               /\ puts # << >>
               /\ puts[1] = prev.height
               /\ Range(puts) = MissingBelow(TopHeight + 1)
               /\ Len(blocks_hash_ts) = TopHeight + 1
               /\ \A k \in DOMAIN blocks_hash_ts : blocks_hash_ts[k] = EntryAt(k - 1))

\* heights 0 and 3 persisted: the first call put height 1 and failed at
\* height 2; the retry read 0, 1, 3, put height 2 alone and returned Ok
C17_Witness ==
  /\ attempt = 2
  /\ pc = "done"
  /\ result = Ok("unit")
  /\ prev.result \in RepairFailures
  /\ Len(prev.persisted) = 2
  /\ prev.persisted[1].height = 0
  /\ prev.persisted[2].height = 3
  /\ prev.puts = <<1>>
  /\ prev.height = 2
  /\ Len(persisted) = 3
  /\ puts = <<2>>
  /\ blocks_hash_ts = <<EntryAt(0), EntryAt(1), EntryAt(2), EntryAt(3)>>

(***************************************************************************)
(* Claims about the synthesized input entries.                             *)
(***************************************************************************)
\* the input entry update makes for a spent utxo of a block
InputEntry(spent, block) == TxSeen(spent.txid, block.height, Vin(spent.vin))

\* C18: an update of a block of height h appends to the history of every
\* script, after what the history held and after the caller's additions for
\* that script, the entry TxSeen(txid, h, Vin(vin)) of each spent utxo of the
\* script, in the order of the spent list; the undo record it pushes holds,
\* per script, the caller's additions followed by these entries; and the
\* reorg that follows the update leaves none of these entries in the history
\* of the script.
C18_InputEntriesAreSynthesized ==
  [][/\ (call'.op = "update") =>
          LET block == call'.arg
          IN /\ \A s \in Scripts :
                  get_history(history', s) =
                    get_history(history, s) \o SuppliedFor(s, block)
                      \o SynthesizedFor(s, block)
             /\ \A k \in DOMAIN block.utxo_spent :
                  LET spent == block.utxo_spent[k]
                      mine == get_history(history', spent.script_hash)
                      kept == reorg_data'[Len(reorg_data')].history
                  IN /\ \E j \in DOMAIN mine :
                          /\ mine[j] = InputEntry(spent, block)
                          /\ j > Len(get_history(history, spent.script_hash))
                                   + Len(SuppliedFor(spent.script_hash, block))
                     /\ spent.script_hash \in DOMAIN kept
                     /\ InputEntry(spent, block) \in Range(kept[spent.script_hash])
             /\ reorg_data'[Len(reorg_data')] = UndoRecordOf(block)
     /\ (call.op = "update" /\ call'.op = "reorg" /\ ~aborted') =>
          \A k \in DOMAIN call.arg.utxo_spent :
            LET spent == call.arg.utxo_spent[k]
            IN InputEntry(spent, call.arg)
                 \notin Range(get_history(history', spent.script_hash))]_vars

\* a reorg has undone a block that spent o1 of s1 and created o2 for s1: the
\* record held the caller's output entry and then the input entry; an earlier
\* block had left s1 an entry, which is still there, and no input entry is
C18_Witness ==
  /\ call.op = "reorg"
  /\ ~aborted
  /\ DOMAIN popped.history = {"s1"}
  /\ popped.history["s1"] = <<TxSeen("t1", 1, Vout(0)), TxSeen("t1", 1, Vin(0))>>
  /\ popped.spent = <<<<"o1", "s1">>>>
  /\ Len(applied) = 1
  /\ get_history(history, "s1") # << >>
  /\ \A s \in DOMAIN history :
       \A k \in DOMAIN history[s] : history[s][k].v # Vin(0)

(***************************************************************************)
(* Claims about deadlock in the store.                                     *)
(***************************************************************************)
HeldBy(t) == {l \in Locks : lock[l] = t}

\* C19: no thread holds two of the three locks at once, and no thread waits
\* for a lock while it holds one; under fair scheduling of the threads every
\* update, reorg, get_utxos and get_history call that has begun returns,
\* unless a reorg found the undo buffer empty and aborted.
C19_NoDeadlock ==
  /\ [](\A t \in Threads :
          /\ Cardinality(HeldBy(t)) <= 1
          /\ (Busy(t) /\ ~tpc[t].locked) => HeldBy(t) = {}
          /\ ~Busy(t) => HeldBy(t) = {})
  /\ \A t \in Threads : Busy(t) ~> (~Busy(t) \/ aborted)

\* an update that has locked utxos and history before waits at insert_utxos
\* for the UTXO-set lock, which a reorg holds after the undo-buffer lock: the
\* two calls take the locks in opposite orders and neither holds a second one
C19_Witness ==
  \E t \in Threads, u \in Threads :
    /\ ~aborted
    /\ tcall[t].op = "update"
    /\ Busy(t)
    /\ StageOf(t) = "insert_utxos"
    /\ ~tpc[t].locked
    /\ acq[t] = <<"utxos", "history">>
    /\ tcall[u].op = "reorg"
    /\ Busy(u)
    /\ StageOf(u) = "insert_utxos"
    /\ lock["utxos"] = u
    /\ acq[u] = <<"reorg_data", "utxos">>
    /\ HeldBy(t) = {}
    /\ HeldBy(u) = {"utxos"}

(***************************************************************************)
(* Claims about the length and the content of the cache.                   *)
(***************************************************************************)
\* headers() returned from inside the repair loop (lines 63-81)
ReturnedInRepair == pc = "done" /\ result \in RepairFailures

\* headers() returned from the for loop or after it (lines 27-50, 89-91)
ReturnedInLoop == pc = "done" /\ result \notin RepairFailures

\* C20: in a call of headers() that began with an empty cache, at the start
\* of every iteration of the for loop and at every return outside a repair
\* the cache has as many entries as the expected-height cursor i says; at the
\* start of every iteration of the repair loop, during it and at a return
\* from it, as many as the next height to repair.  The cache changes only by
\* the push of the hash and timestamp of the height that equals its length,
\* so the entry at index k (from 0) is that of height k; and a return, Ok or
\* error, leaves the cache as it was.
C20_CacheLengthIsCursor ==
  /\ [](/\ pc \in {"start", "loop"} => Len(blocks_hash_ts) = i
        /\ InRepairCall => /\ Len(blocks_hash_ts) = height
                           /\ i <= height
                           /\ height < gap_end
        /\ pc = "gap_closed" => Len(blocks_hash_ts) = gap_end
        /\ ReturnedInLoop => Len(blocks_hash_ts) = i
        /\ ReturnedInRepair => Len(blocks_hash_ts) = height /\ i <= height)
  /\ [][/\ blocks_hash_ts' # blocks_hash_ts =>
             blocks_hash_ts' = Append(blocks_hash_ts, EntryAt(Len(blocks_hash_ts)))
        /\ pc' = "done" => blocks_hash_ts' = blocks_hash_ts]_vars

\* a repair failed after the for loop accepted a record and the repair loop
\* pushed one: both are in the cache after the error
C20_Witness ==
  /\ ReturnedInRepair
  /\ i > 0
  /\ height > i
  /\ Len(blocks_hash_ts) = height
  /\ blocks_hash_ts[i] = EntryAt(i - 1)
  /\ blocks_hash_ts[height] = EntryAt(height - 1)

====
